---- MODULE Spec2Model ----
\* A model of afkmute.py: the per-guild AFK-mute store (AfkMuteState), its two
\* mutating methods, the two slash commands and the two gateway listeners.
\* Every handler is one action; the effects it has on the outside world
\* (member edits, store writes, exceptions, responses) are recorded, in the
\* order the code performs them, in the history variable `trace`.
EXTENDS Integers, Sequences, FiniteSets, TLC

\* ---------------------------------------------------------------- bounds
\* The voice channels of the guild.
NumChannels == 2
Channels == 1..NumChannels

\* The ids of the guild's members. No handler relates more than two of them
\* (the target of a command and the member who runs it), so two are all there
\* are.
Members == {1, 2}

\* Python's None, and an optional value, as a sequence of length 0 or 1.
None == <<>>
Some(x) == <<x>>

\* ------------------------------------------------------------ data model
\* str(user.id): the decimal digits of a positive integer.
DigitChars == <<"0", "1", "2", "3", "4", "5", "6", "7", "8", "9">>

RECURSIVE str(_)
str(n) ==
    IF n < 10 THEN <<DigitChars[n + 1]>>
    ELSE str(n \div 10) \o <<DigitChars[(n % 10) + 1]>>

\* AfkMuteInfo with its two ids exchanged.
AfkMuteInfo_swapped(user_id, muter_id) ==
    [user_id |-> muter_id, muter_id |-> user_id]

\* AfkMuteInfo(user_id=..., muter_id=...).as_dict()
AfkMuteInfo(user_id, muter_id) == [user_id |-> user_id, muter_id |-> muter_id]

\* hikari.VoiceState, the fields on_voice_state_update reads.
VoiceStates ==
    [channel_id : {None} \cup {Some(c) : c \in Channels},
     is_guild_muted : BOOLEAN,
     is_self_deafened : BOOLEAN,
     is_self_muted : BOOLEAN,
     is_streaming : BOOLEAN,
     is_video_enabled : BOOLEAN]

\* The cached voice state of a member, guild.get_voice_state(user): None when
\* the member is in no voice channel, else the one field the store's methods
\* read from the cache.
CachedVoiceStates == {None} \cup {Some([is_guild_muted |-> b]) : b \in BOOLEAN}

\* Exceptions.
NoError == "no error"
UserAlreadyAfkMuteError == "UserAlreadyAfkMuteError"
UserNotAfkMuteError == "UserNotAfkMuteError"
UserNotInVcError == "UserNotInVcError"
\* user.edit failing (hikari.ForbiddenError and the like).
EditError == "hikari.HTTPError"
\* `member.id` on the None that bot.cache.get_member can return.
AttributeError == "AttributeError"
\* app.rest.fetch_member failing (hikari.NotFoundError and the like).
FetchError == "hikari.NotFoundError"

VARIABLES
    cfg,      \* self.cfg: the persisted mapping g/afk_mute_users, key -> dict
    voice,    \* the gateway cache: member -> cached voice state or None
    op,       \* the handler or method that ran last, with its arguments
    pre,      \* cfg and voice as that handler found them
    trace,    \* what it did, in order
    exc,      \* the exception that escaped it, or NoError
    deleted,  \* the members whose entry the handler before that one deleted
    tasks,    \* the coroutines of the event loop, in the order they began
    platform, \* the voice state of each member as the platform has it
    queue     \* the voice state updates the gateway has yet to deliver

vars == <<cfg, voice, op, pre, trace, exc, deleted, tasks, platform, queue>>

\* --------------------------------------------------------- the cfg store
\* self.cfg.set(key, value)
cfg_set(c, key, value) ==
    [k \in (DOMAIN c) \cup {key} |-> IF k = key THEN value ELSE c[k]]

\* self.cfg.delete(key)
cfg_delete(c, key) == [k \in (DOMAIN c) \ {key} |-> c[k]]

EmptyCfg == [k \in {} |-> None]

\* list(self.cfg.opts.values()): the values of the store in the order the
\* mapping yields them, which may be any order.
Enumerations(c) ==
    {[i \in 1..Cardinality(DOMAIN c) |-> c[ks[i]]] :
        ks \in {f \in [1..Cardinality(DOMAIN c) -> DOMAIN c] :
                   \A i, j \in DOMAIN f : i # j => f[i] # f[j]}}

\* ----------------------------------------------------------- trace events
Ev(e, user, flag, id) == [e |-> e, user |-> user, flag |-> flag, id |-> id]

EvCallSet(user, muter) == Ev("set_afk_mute", user, FALSE, muter)
EvCallUnset(user, no_vc_ok) == Ev("unset_afk_mute", user, no_vc_ok, 0)
EvEdit(user, mute) == Ev("edit", user, mute, 0)
EvCfgSet(user, muter) == Ev("cfg.set", user, FALSE, muter)
EvCfgDelete(user) == Ev("cfg.delete", user, FALSE, 0)
EvRaise(user, error) == Ev(error, user, FALSE, 0)
EvRespond(user, text) == Ev(text, user, FALSE, 0)
EvFetch(user) == Ev("fetch_member", user, FALSE, 0)

\* The outcome of running a piece of code: the store, what happened, and the
\* exception in flight (NoError when it ran to its end).
Outcome(c, tr, error) == [cfg |-> c, trace |-> tr, exc |-> error]

\* ---------------------------------------------------------- AfkMuteState
is_afk_mute(c, user) == str(user) \in DOMAIN c

is_user_in_vc(v, user) == v[user] # None

\* set_afk_mute without its is_afk_mute check.
set_afk_mute_nocheck(c, v, tr, user, muter, editOk) ==
    LET t0 == Append(tr, EvCallSet(user, muter))
        t1 == IF is_user_in_vc(v, user)
              THEN Append(t0, EvEdit(user, TRUE)) ELSE t0 IN
    IF is_user_in_vc(v, user) /\ ~editOk
    THEN Outcome(c, Append(t1, EvRaise(user, EditError)), EditError)
    ELSE Outcome(cfg_set(c, str(user), AfkMuteInfo(user, muter)),
                 Append(t1, EvCfgSet(user, muter)), NoError)

\* set_afk_mute editing the member whether or not the user is in voice.
set_afk_mute_editalways(c, v, tr, user, muter, editOk) ==
    LET t0 == Append(tr, EvCallSet(user, muter)) IN
    IF is_afk_mute(c, user)
    THEN Outcome(c, Append(t0, EvRaise(user, UserAlreadyAfkMuteError)),
                 UserAlreadyAfkMuteError)
    ELSE
        LET t1 == Append(t0, EvEdit(user, TRUE)) IN
        IF ~editOk
        THEN Outcome(c, Append(t1, EvRaise(user, EditError)), EditError)
        ELSE Outcome(cfg_set(c, str(user), AfkMuteInfo(user, muter)),
                     Append(t1, EvCfgSet(user, muter)), NoError)

\* set_afk_mute(user, muter); editOk: whether user.edit(mute=True) succeeds.
set_afk_mute(c, v, tr, user, muter, editOk) ==
    LET t0 == Append(tr, EvCallSet(user, muter)) IN
    IF is_afk_mute(c, user)
    THEN Outcome(c, Append(t0, EvRaise(user, UserAlreadyAfkMuteError)),
                 UserAlreadyAfkMuteError)
    ELSE
        LET t1 == IF is_user_in_vc(v, user)
                  THEN Append(t0, EvEdit(user, TRUE)) ELSE t0 IN
        IF is_user_in_vc(v, user) /\ ~editOk
        THEN Outcome(c, Append(t1, EvRaise(user, EditError)), EditError)
        ELSE Outcome(cfg_set(c, str(user), AfkMuteInfo(user, muter)),
                     Append(t1, EvCfgSet(user, muter)), NoError)

\* unset_afk_mute without its is_afk_mute check.
unset_afk_mute_nocheck(c, v, tr, user, no_vc_ok, editOk) ==
    LET t0 == Append(tr, EvCallUnset(user, no_vc_ok)) IN
    IF ~no_vc_ok /\ ~is_user_in_vc(v, user)
    THEN Outcome(c, Append(t0, EvRaise(user, UserNotInVcError)),
                 UserNotInVcError)
    ELSE
        LET t1 == IF ~no_vc_ok THEN Append(t0, EvEdit(user, FALSE)) ELSE t0 IN
        IF ~no_vc_ok /\ ~editOk
        THEN Outcome(c, Append(t1, EvRaise(user, EditError)), EditError)
        ELSE Outcome(cfg_delete(c, str(user)),
                     Append(t1, EvCfgDelete(user)), NoError)

\* unset_afk_mute without its is_user_in_vc check.
unset_afk_mute_novccheck(c, v, tr, user, no_vc_ok, editOk) ==
    LET t0 == Append(tr, EvCallUnset(user, no_vc_ok)) IN
    IF ~is_afk_mute(c, user)
    THEN Outcome(c, Append(t0, EvRaise(user, UserNotAfkMuteError)),
                 UserNotAfkMuteError)
    ELSE
        LET t1 == IF ~no_vc_ok THEN Append(t0, EvEdit(user, FALSE)) ELSE t0 IN
        IF ~no_vc_ok /\ ~editOk
        THEN Outcome(c, Append(t1, EvRaise(user, EditError)), EditError)
        ELSE Outcome(cfg_delete(c, str(user)),
                     Append(t1, EvCfgDelete(user)), NoError)

\* unset_afk_mute deleting the record before it edits the member.
unset_afk_mute_deletefirst(c, v, tr, user, no_vc_ok, editOk) ==
    LET t0 == Append(tr, EvCallUnset(user, no_vc_ok)) IN
    IF ~is_afk_mute(c, user)
    THEN Outcome(c, Append(t0, EvRaise(user, UserNotAfkMuteError)),
                 UserNotAfkMuteError)
    ELSE IF ~no_vc_ok /\ ~is_user_in_vc(v, user)
    THEN Outcome(c, Append(t0, EvRaise(user, UserNotInVcError)),
                 UserNotInVcError)
    ELSE
        LET t1 == Append(t0, EvCfgDelete(user))
            t2 == IF ~no_vc_ok THEN Append(t1, EvEdit(user, FALSE)) ELSE t1 IN
        IF ~no_vc_ok /\ ~editOk
        THEN Outcome(cfg_delete(c, str(user)),
                     Append(t2, EvRaise(user, EditError)), EditError)
        ELSE Outcome(cfg_delete(c, str(user)), t2, NoError)

\* unset_afk_mute(user, no_vc_ok); editOk: whether user.edit(mute=False)
\* succeeds.
unset_afk_mute(c, v, tr, user, no_vc_ok, editOk) ==
    LET t0 == Append(tr, EvCallUnset(user, no_vc_ok)) IN
    IF ~is_afk_mute(c, user)
    THEN Outcome(c, Append(t0, EvRaise(user, UserNotAfkMuteError)),
                 UserNotAfkMuteError)
    ELSE IF ~no_vc_ok /\ ~is_user_in_vc(v, user)
    THEN Outcome(c, Append(t0, EvRaise(user, UserNotInVcError)),
                 UserNotInVcError)
    ELSE
        LET t1 == IF ~no_vc_ok THEN Append(t0, EvEdit(user, FALSE)) ELSE t0 IN
        IF ~no_vc_ok /\ ~editOk
        THEN Outcome(c, Append(t1, EvRaise(user, EditError)), EditError)
        ELSE Outcome(cfg_delete(c, str(user)),
                     Append(t1, EvCfgDelete(user)), NoError)

\* sweep_item without the look at is_guild_muted.
sweep_item_anyvoice(c, v, tr, info, fetchOk) ==
    LET member == info.user_id
        t1 == Append(tr, EvFetch(member))
    IN
    IF ~fetchOk
    THEN Outcome(c, Append(t1, EvRaise(member, FetchError)), FetchError)
    ELSE IF v[member] # None
    THEN unset_afk_mute(c, v, t1, member, TRUE, TRUE)
    ELSE Outcome(c, t1, NoError)

\* One turn of the loop of fetch_afk_mute_state, for the record info; fetchOk
\* is whether fetch_member succeeds.
sweep_item(c, v, tr, info, fetchOk) ==
    LET member == info.user_id
        t1 == Append(tr, EvFetch(member))
        voice_state == v[member]
    IN
    IF ~fetchOk
    THEN Outcome(c, Append(t1, EvRaise(member, FetchError)), FetchError)
    ELSE IF voice_state # None /\ ~voice_state[1].is_guild_muted
    THEN unset_afk_mute(c, v, t1, member, TRUE, TRUE)
    ELSE Outcome(c, t1, NoError)

\* The loop of fetch_afk_mute_state over info_items from index i on, run with
\* nothing else in between. failAt is the index at which fetch_member fails
\* (0: it never does).
RECURSIVE sweep_loop(_, _, _, _, _, _)
sweep_loop(c, v, tr, info_items, i, failAt) ==
    IF i > Len(info_items)
    THEN Outcome(c, tr, NoError)
    ELSE
        LET r == sweep_item(c, v, tr, info_items[i], i # failAt) IN
        IF r.exc # NoError
        THEN r
        ELSE sweep_loop(r.cfg, v, r.trace, info_items, i + 1, failAt)

\* fetch_afk_mute_state(app), with info_items as the store enumerated them.
fetch_afk_mute_state(c, v, info_items, failAt) ==
    sweep_loop(c, v, <<>>, info_items, 1, failAt)

\* -------------------------------------------------------------- handlers
\* /afkmute user:<target>, run by ctx.member.
afkmute(c, v, target, member, editOk) ==
    LET r == set_afk_mute(c, v, <<>>, target, member, editOk) IN
    IF r.exc = UserAlreadyAfkMuteError
    THEN Outcome(r.cfg,
                 Append(r.trace, EvRespond(target, "This user is already afk-muted.")),
                 NoError)
    ELSE IF r.exc # NoError
    THEN r
    ELSE Outcome(r.cfg,
                 Append(r.trace, EvRespond(target, "you have been afk-muted.")),
                 NoError)

\* /unafkmute, run by ctx.member on themselves.
unafkmute(c, v, member, editOk) ==
    LET r == unset_afk_mute(c, v, <<>>, member, FALSE, editOk) IN
    IF r.exc = UserNotAfkMuteError
    THEN Outcome(r.cfg,
                 Append(r.trace, EvRespond(member, "You are not afk-muted.")),
                 NoError)
    ELSE IF r.exc = UserNotInVcError
    THEN Outcome(r.cfg,
                 Append(r.trace,
                        EvRespond(member, "You must be in vc to remove afk-mute status.")),
                 NoError)
    ELSE IF r.exc # NoError
    THEN r
    ELSE Outcome(r.cfg,
                 Append(r.trace, EvRespond(member, "You have been unmuted.")),
                 NoError)

\* user_status with channel_id counted as a self-status attribute.
user_status_withchannel ==
    <<"channel_id", "is_self_deafened", "is_self_muted", "is_streaming",
      "is_video_enabled">>

\* user_status without its last attribute.
user_status_short == <<"is_self_deafened", "is_self_muted", "is_streaming">>

\* The self-status attributes, in the order the listener compares them.
user_status ==
    <<"is_self_deafened", "is_self_muted", "is_streaming", "is_video_enabled">>

\* The loop over user_status from index i on: the first attribute whose value
\* differs between old_state and state ends it with unset_afk_mute.
RECURSIVE status_loop(_, _, _, _, _, _, _, _)
status_loop(c, v, tr, user, old_state, state, editOk, i) ==
    IF i > Len(user_status)
    THEN Outcome(c, tr, NoError)
    ELSE IF old_state[user_status[i]] # state[user_status[i]]
    THEN unset_afk_mute(c, v, tr, user, FALSE, editOk)
    ELSE status_loop(c, v, tr, user, old_state, state, editOk, i + 1)

\* on_voice_state_update without the return that follows the unset_afk_mute of
\* a manually unmuted user.
on_voice_state_update_noreturn(c, v, user, old, state, editOk) ==
    LET manually_unmuted ==
            /\ old # None
            /\ old[1].is_guild_muted
            /\ ~state.is_guild_muted
        r0 == IF manually_unmuted /\ is_afk_mute(c, user)
              THEN unset_afk_mute(c, v, <<>>, user, FALSE, editOk)
              ELSE Outcome(c, <<>>, NoError)
        remute ==
            /\ old = None
            /\ state.channel_id # None
            /\ is_afk_mute(r0.cfg, user)
            /\ ~state.is_guild_muted
        t1 == IF remute THEN Append(r0.trace, EvEdit(user, TRUE)) ELSE r0.trace
    IN
    IF r0.exc # NoError
    THEN r0
    ELSE IF remute /\ ~editOk
    THEN Outcome(r0.cfg, Append(t1, EvRaise(user, EditError)), EditError)
    ELSE IF old = None
    THEN Outcome(r0.cfg, t1, NoError)
    ELSE status_loop(r0.cfg, v, t1, user, old[1], state, editOk, 1)

\* on_voice_state_update muting a member who joined through set_afk_mute.
on_voice_state_update_viaapply(c, v, user, old, state, editOk) ==
    LET manually_unmuted ==
            /\ old # None
            /\ old[1].is_guild_muted
            /\ ~state.is_guild_muted
        joined_vc ==
            /\ old = None
            /\ state.channel_id # None
    IN
    IF manually_unmuted /\ is_afk_mute(c, user)
    THEN unset_afk_mute(c, v, <<>>, user, FALSE, editOk)
    ELSE
        LET remute == joined_vc /\ is_afk_mute(c, user) /\ ~state.is_guild_muted
            r1 == IF remute
                  THEN set_afk_mute(c, v, <<>>, user, user, editOk)
                  ELSE Outcome(c, <<>>, NoError)
        IN
        IF r1.exc # NoError
        THEN r1
        ELSE IF old = None
        THEN r1
        ELSE status_loop(r1.cfg, v, r1.trace, user, old[1], state, editOk, 1)

\* on_voice_state_update without its look for a manual unmute.
on_voice_state_update_nomanual(c, v, user, old, state, editOk) ==
    LET joined_vc ==
            /\ old = None
            /\ state.channel_id # None
        remute == joined_vc /\ is_afk_mute(c, user) /\ ~state.is_guild_muted
        t1 == IF remute THEN <<EvEdit(user, TRUE)>> ELSE <<>>
    IN
    IF remute /\ ~editOk
    THEN Outcome(c, Append(t1, EvRaise(user, EditError)), EditError)
    ELSE IF old = None
    THEN Outcome(c, t1, NoError)
    ELSE status_loop(c, v, t1, user, old[1], state, editOk, 1)

\* on_voice_state_update(event): old is event.old_state (None or Some(state)),
\* state is event.state, user is event.state.member.
on_voice_state_update(c, v, user, old, state, editOk) ==
    LET manually_unmuted ==
            /\ old # None
            /\ old[1].is_guild_muted
            /\ ~state.is_guild_muted
        joined_vc ==
            /\ old = None
            /\ state.channel_id # None
    IN
    IF manually_unmuted /\ is_afk_mute(c, user)
    THEN unset_afk_mute(c, v, <<>>, user, FALSE, editOk)
    ELSE
        LET remute == joined_vc /\ is_afk_mute(c, user) /\ ~state.is_guild_muted
            t1 == IF remute THEN <<EvEdit(user, TRUE)>> ELSE <<>>
        IN
        IF remute /\ ~editOk
        THEN Outcome(c, Append(t1, EvRaise(user, EditError)), EditError)
        ELSE IF old = None
        THEN Outcome(c, t1, NoError)
        ELSE status_loop(c, v, t1, user, old[1], state, editOk, 1)

\* The three events on_member_message_action listens to.
MessageActionEvents ==
    {"GuildMessageCreateEvent", "GuildMessageUpdateEvent", "GuildReactionEvent"}

\* on_member_message_action calling unset_afk_mute with no_vc_ok=True.
on_member_message_action_novcok(c, v, member, editOk) ==
    IF member = None
    THEN Outcome(c, <<EvRaise(0, AttributeError)>>, AttributeError)
    ELSE IF is_afk_mute(c, member[1])
    THEN
        LET r == unset_afk_mute(c, v, <<>>, member[1], TRUE, editOk) IN
        IF r.exc = UserNotInVcError
        THEN Outcome(r.cfg, r.trace, NoError)
        ELSE r
    ELSE Outcome(c, <<>>, NoError)

\* on_member_message_action(event): member is the acting member as the
\* listener resolves it, None when bot.cache.get_member misses.
on_member_message_action(c, v, member, editOk) ==
    IF member = None
    THEN Outcome(c, <<EvRaise(0, AttributeError)>>, AttributeError)
    ELSE IF is_afk_mute(c, member[1])
    THEN
        LET r == unset_afk_mute(c, v, <<>>, member[1], FALSE, editOk) IN
        IF r.exc = UserNotInVcError
        THEN Outcome(r.cfg, r.trace, NoError)
        ELSE r
    ELSE Outcome(c, <<>>, NoError)

\* on_started(event), for the one guild of the model: ready is whether saru
\* reports ready within the ten seconds the listener waits.
on_started(c, v, ready, info_items, failAt) ==
    IF ~ready
    THEN Outcome(c, <<>>, NoError)
    ELSE fetch_afk_mute_state(c, v, info_items, failAt)

\* ------------------------------------------------------------ the system
\* What `op` holds: the name of the handler and its arguments (0, FALSE, None
\* and "" for the arguments a handler does not have).
Op(name, user, muter, no_vc_ok, old, state, event) ==
    [name |-> name, user |-> user, muter |-> muter, no_vc_ok |-> no_vc_ok,
     old |-> old, state |-> state, event |-> event]

\* No handler is running or has just run: the event loop awaits the next
\* command or event.
Idle == Op("idle", 0, 0, FALSE, None, None, "")

\* One handler runs from store c and cache v, with outcome r.
Ran(o, c, v, r) ==
    /\ op' = o
    /\ pre' = [cfg |-> c, voice |-> v]
    /\ cfg' = r.cfg
    /\ voice' = v
    /\ trace' = r.trace
    /\ exc' = r.exc
    /\ UNCHANGED <<deleted, tasks, platform, queue>>

\* The members whose entry a handler deleted, going by its trace.
Deleted(tr) == {tr[i].user : i \in {j \in DOMAIN tr : tr[j].e = "cfg.delete"}}

\* The handler has returned (or raised); the event loop takes up the next
\* command or event. The history of the handler is dropped, but for the
\* members whose entry it deleted.
AwaitNext ==
    /\ op # Idle
    /\ op' = Idle
    /\ pre' = [cfg |-> cfg, voice |-> voice]
    /\ trace' = <<>>
    /\ exc' = NoError
    /\ deleted' = Deleted(trace)
    /\ UNCHANGED <<cfg, voice, tasks, platform, queue>>

\* The process has started with an empty g/afk_mute_users; members may already
\* sit in voice channels.
Init ==
    /\ cfg = EmptyCfg
    /\ voice \in [Members -> CachedVoiceStates]
    /\ op = Idle
    /\ pre = [cfg |-> cfg, voice |-> voice]
    /\ trace = <<>>
    /\ exc = NoError
    /\ deleted = {}
    /\ tasks = <<>>
    /\ platform = <<>>
    /\ queue = <<>>

\* state.set_afk_mute(user, muter), called directly; its edit may succeed or
\* fail.
CallSetAfkMute ==
    /\ op = Idle
    /\ \E user \in Members, muter \in Members :
         \E r \in {set_afk_mute(cfg, voice, <<>>, user, muter, editOk) :
                      editOk \in BOOLEAN} :
            Ran(Op("set_afk_mute", user, muter, FALSE, None, None, ""),
                cfg, voice, r)

\* state.unset_afk_mute(user, no_vc_ok), called directly.
CallUnsetAfkMute ==
    /\ op = Idle
    /\ \E user \in Members, no_vc_ok \in BOOLEAN :
         \E r \in {unset_afk_mute(cfg, voice, <<>>, user, no_vc_ok, editOk) :
                      editOk \in BOOLEAN} :
            Ran(Op("unset_afk_mute", user, 0, no_vc_ok, None, None, ""),
                cfg, voice, r)

\* A member runs /afkmute on a target.
AfkmuteCommand ==
    /\ op = Idle
    /\ \E target \in Members, member \in Members :
         \E r \in {afkmute(cfg, voice, target, member, editOk) :
                      editOk \in BOOLEAN} :
            Ran(Op("afkmute", target, member, FALSE, None, None, ""),
                cfg, voice, r)

\* A member runs /unafkmute.
UnafkmuteCommand ==
    /\ op = Idle
    /\ \E member \in Members :
         \E r \in {unafkmute(cfg, voice, member, editOk) : editOk \in BOOLEAN} :
            Ran(Op("unafkmute", member, 0, FALSE, None, None, ""),
                cfg, voice, r)

\* The cache entry a voice state leaves behind: none once the member has left
\* voice (channel_id is None).
Cached(state) ==
    IF state.channel_id = None
    THEN None
    ELSE Some([is_guild_muted |-> state.is_guild_muted])

\* The old_state an event for this member can carry: None when the cache held
\* no voice state, else a state in some channel with the cached mute bit.
OldStates(v, user) ==
    IF v[user] = None
    THEN {None}
    ELSE {Some(s) : s \in
             [channel_id : {Some(c) : c \in Channels},
              is_guild_muted : {v[user][1].is_guild_muted},
              is_self_deafened : BOOLEAN,
              is_self_muted : BOOLEAN,
              is_streaming : BOOLEAN,
              is_video_enabled : BOOLEAN]}

\* The gateway delivers a VoiceStateUpdateEvent: the cache takes the new state,
\* then the listener runs.
VoiceStateUpdateEvent ==
    /\ op = Idle
    /\ \E user \in Members :
         \E old \in OldStates(voice, user), state \in VoiceStates :
            LET v == [voice EXCEPT ![user] = Cached(state)] IN
            \E r \in {on_voice_state_update(cfg, v, user, old, state, editOk) :
                         editOk \in BOOLEAN} :
               Ran(Op("on_voice_state_update", user, 0, FALSE, old, Some(state), ""),
                   cfg, v, r)

\* The member the listener finds for the acting user: event.member for the
\* message events, the cache's member (or None) for a reaction.
ResolvedMembers(event, user) ==
    IF event = "GuildReactionEvent"
    THEN {None, Some(user)}
    ELSE {Some(user)}

\* The gateway delivers a message create, message edit or reaction event.
MemberMessageActionEvent ==
    /\ op = Idle
    /\ \E user \in Members, event \in MessageActionEvents :
         \E member \in ResolvedMembers(event, user) :
            \E r \in {on_member_message_action(cfg, voice, member, editOk) :
                         editOk \in BOOLEAN} :
               Ran(Op("on_member_message_action", user, 0, FALSE, None, member, event),
                   cfg, voice, r)

\* The StartedEvent listener runs its sweep of the guild (or gives up waiting
\* for saru).
StartedEvent ==
    /\ op = Idle
    /\ \E ready \in BOOLEAN, info_items \in Enumerations(cfg) :
         \E failAt \in 0..Len(info_items) :
            Ran(Op("on_started", 0, 0, FALSE, None, None,
                   IF ready THEN "saru ready" ELSE "saru not ready"),
                cfg, voice, on_started(cfg, voice, ready, info_items, failAt))

Next ==
    \/ CallSetAfkMute
    \/ CallUnsetAfkMute
    \/ AfkmuteCommand
    \/ UnafkmuteCommand
    \/ VoiceStateUpdateEvent
    \/ MemberMessageActionEvent
    \/ StartedEvent
    \/ AwaitNext

Spec == Init /\ [][Next]_vars

\* ------------------------------------------------------------ properties
\* The keys under which the store holds a record for this user.
RecordsOf(c, user) == {k \in DOMAIN c : c[k].user_id = user}

\* Where in a trace an event of this kind stands.
At(tr, e) == {i \in DOMAIN tr : tr[i].e = e}

\* Where in a trace this very event stands.
AtEv(tr, ev) == {i \in DOMAIN tr : tr[i] = ev}

\* The handler that ran last called set_afk_mute / unset_afk_mute for user.
CalledSet(user) == \E i \in At(trace, "set_afk_mute") : trace[i].user = user
CalledUnset(user, no_vc_ok) == AtEv(trace, EvCallUnset(user, no_vc_ok)) # {}

\* C1: in every reachable state, is_afk_mute(user) is true exactly when the
\* store holds a record for that user, and it holds at most one.
C1_MutedIffRecord ==
    \A user \in Members :
        /\ is_afk_mute(cfg, user) <=> RecordsOf(cfg, user) # {}
        /\ Cardinality(RecordsOf(cfg, user)) <= 1

\* A failed set_afk_mute has just run while one member has a record and
\* another has none.
C1_Witness ==
    /\ op.name = "set_afk_mute"
    /\ exc = UserAlreadyAfkMuteError
    /\ \E u1 \in Members, u2 \in Members :
          /\ is_afk_mute(cfg, u1) /\ RecordsOf(cfg, u1) = {str(u1)}
          /\ ~is_afk_mute(cfg, u2) /\ RecordsOf(cfg, u2) = {}

\* C2: set_afk_mute on a user who has a record raises UserAlreadyAfkMuteError,
\* edits no member and leaves the store as it was, whoever the muter is and
\* whether or not the user is in voice.
C2_NoDoubleApply ==
    \A user \in Members :
        (CalledSet(user) /\ RecordsOf(pre.cfg, user) # {}) =>
            /\ At(trace, UserAlreadyAfkMuteError) # {}
            /\ At(trace, "edit") = {}
            /\ At(trace, "cfg.set") = {}
            /\ cfg = pre.cfg
            /\ op.name = "set_afk_mute" => exc = UserAlreadyAfkMuteError

\* A second muter has tried to mute a member in voice who already has a
\* record written by another muter.
C2_Witness ==
    /\ op.name = "set_afk_mute"
    /\ is_user_in_vc(pre.voice, op.user)
    /\ is_afk_mute(pre.cfg, op.user)
    /\ pre.cfg[str(op.user)].muter_id # op.muter
    /\ cfg[str(op.user)] = pre.cfg[str(op.user)]
    /\ exc = UserAlreadyAfkMuteError

\* C3: unset_afk_mute on a user with no record raises UserNotAfkMuteError for
\* both values of no_vc_ok and in or out of voice, edits no member and leaves
\* the store as it was; so does an unset_afk_mute that follows the handler
\* which deleted that user's record.
C3_NoDoubleClear ==
    \A user \in Members, no_vc_ok \in BOOLEAN :
        (/\ CalledUnset(user, no_vc_ok)
         /\ (RecordsOf(pre.cfg, user) = {} \/ user \in deleted)) =>
            /\ At(trace, UserNotAfkMuteError) # {}
            /\ At(trace, "edit") = {}
            /\ At(trace, "cfg.delete") = {}
            /\ cfg = pre.cfg
            /\ op.name = "unset_afk_mute" => exc = UserNotAfkMuteError

\* unset_afk_mute(user, no_vc_ok=True) has run right after the handler that
\* deleted the record of that user, who is in voice.
C3_Witness ==
    /\ op.name = "unset_afk_mute"
    /\ op.no_vc_ok
    /\ op.user \in deleted
    /\ is_user_in_vc(pre.voice, op.user)
    /\ exc = UserNotAfkMuteError

\* C4: unset_afk_mute(user, no_vc_ok=False) on a user who has a record but no
\* voice state raises UserNotInVcError, edits no member and leaves the record
\* where it was.
C4_ClearNeedsVoice ==
    \A user \in Members :
        (/\ CalledUnset(user, FALSE)
         /\ RecordsOf(pre.cfg, user) # {}
         /\ ~is_user_in_vc(pre.voice, user)) =>
            /\ At(trace, UserNotInVcError) # {}
            /\ At(trace, "edit") = {}
            /\ At(trace, "cfg.delete") = {}
            /\ cfg = pre.cfg
            /\ op.name = "unset_afk_mute" => exc = UserNotInVcError

\* unset_afk_mute(user) has failed on a member with a record and no voice
\* state.
C4_Witness ==
    /\ op.name = "unset_afk_mute"
    /\ ~op.no_vc_ok
    /\ is_afk_mute(pre.cfg, op.user)
    /\ ~is_user_in_vc(pre.voice, op.user)
    /\ exc = UserNotInVcError
    /\ is_afk_mute(cfg, op.user)

\* A successful unset_afk_mute for user, which deleted the record the store
\* held: the positions of its cfg.delete in the trace.
DeletedAt(user) == AtEv(trace, EvCfgDelete(user))

\* C5: a successful unset_afk_mute on a user who has a record and a voice state
\* first edits the member with mute=False and then deletes the record, for both
\* values of no_vc_ok; the edit is skipped only for a user with no voice state.
C5_ClearUnmutesInVoice ==
    \A user \in Members, no_vc_ok \in BOOLEAN :
        (/\ CalledUnset(user, no_vc_ok)
         /\ RecordsOf(pre.cfg, user) # {}
         /\ DeletedAt(user) # {}) =>
            /\ RecordsOf(cfg, user) = {}
            /\ is_user_in_vc(pre.voice, user) =>
                  \E i \in AtEv(trace, EvEdit(user, FALSE)) :
                      \A j \in DeletedAt(user) : i < j
            /\ At(trace, "edit") = {} => ~is_user_in_vc(pre.voice, user)

\* C6: set_afk_mute(user, muter) on a user with no record edits the member
\* with mute=True exactly when the user has a voice state, and never otherwise
\* touches the platform; when it succeeds the store holds the record
\* {user, muter} for that user and every other entry as before; for a user
\* with no voice state it succeeds with no edit.
C6_ApplyMutesInVoice ==
    \A user \in Members, muter \in Members :
        (/\ AtEv(trace, EvCallSet(user, muter)) # {}
         /\ RecordsOf(pre.cfg, user) = {}) =>
            /\ AtEv(trace, EvEdit(user, TRUE)) # {} <=> is_user_in_vc(pre.voice, user)
            /\ Cardinality(At(trace, "edit")) <= 1
            /\ At(trace, "edit") \subseteq AtEv(trace, EvEdit(user, TRUE))
            /\ At(trace, EditError) = {} =>
                  /\ RecordsOf(cfg, user) = {str(user)}
                  /\ cfg[str(user)] = AfkMuteInfo(user, muter)
                  /\ DOMAIN cfg = DOMAIN pre.cfg \cup {str(user)}
                  /\ \A k \in DOMAIN pre.cfg : cfg[k] = pre.cfg[k]
                  /\ exc = NoError
            /\ ~is_user_in_vc(pre.voice, user) => At(trace, EditError) = {}

\* set_afk_mute has muted a member in voice who had no record, while another
\* member had one.
C6_Witness ==
    /\ op.name = "set_afk_mute"
    /\ ~is_afk_mute(pre.cfg, op.user)
    /\ pre.cfg # EmptyCfg
    /\ is_user_in_vc(pre.voice, op.user)
    /\ trace = <<EvCallSet(op.user, op.muter), EvEdit(op.user, TRUE),
                 EvCfgSet(op.user, op.muter)>>
    /\ cfg[str(op.user)] = AfkMuteInfo(op.user, op.muter)

\* C7: when the member edit inside set_afk_mute or unset_afk_mute fails, the
\* store stays exactly as it was (no record written, none deleted), the
\* failure escapes the handler, and the edit is not tried again.
C7_NoPartialState ==
    At(trace, EditError) # {} =>
        /\ cfg = pre.cfg
        /\ At(trace, "cfg.set") = {}
        /\ At(trace, "cfg.delete") = {}
        /\ exc = EditError
        /\ Cardinality(At(trace, "edit")) = 1
        /\ At(trace, EditError) = {Len(trace)}

\* The unmute inside unset_afk_mute has failed for a member in voice with a
\* record, which is still there.
C7_Witness ==
    /\ op.name = "unset_afk_mute"
    /\ is_afk_mute(pre.cfg, op.user)
    /\ trace = <<EvCallUnset(op.user, FALSE), EvEdit(op.user, FALSE),
                 EvRaise(op.user, EditError)>>
    /\ exc = EditError
    /\ is_afk_mute(cfg, op.user)

\* The last handler was on_member_message_action for a user who had a record,
\* and it ran to its end.
ActivityProcessed(user) ==
    /\ op.name = "on_member_message_action"
    /\ op.user = user
    /\ RecordsOf(pre.cfg, user) # {}
    /\ exc = NoError

SelfStatus ==
    {"is_self_deafened", "is_self_muted", "is_streaming", "is_video_enabled"}

\* Those of them whose value differs between the old and the new state of the
\* last voice event.
Toggled == {a \in SelfStatus : op.old[1][a] # op.state[1][a]}

\* The last handler was on_voice_state_update for this user, with an old state.
VoiceEventWithOld(user) ==
    /\ op.name = "on_voice_state_update"
    /\ op.user = user
    /\ op.old # None

\* C9: a voice event with an old state in which is_self_deafened,
\* is_self_muted, is_streaming or is_video_enabled differs from the new state,
\* for a user who has a record and is in voice, makes the listener call
\* unset_afk_mute once: the member is edited once, with mute=False, and unless
\* that edit fails the record is deleted and is_afk_mute(user) is false.
C9_StatusChangeClears ==
    \A user \in Members :
        (/\ VoiceEventWithOld(user)
         /\ Toggled # {}
         /\ RecordsOf(pre.cfg, user) # {}
         /\ is_user_in_vc(pre.voice, user)) =>
            /\ Cardinality(At(trace, "unset_afk_mute")) = 1
            /\ AtEv(trace, EvCallUnset(user, FALSE)) = {1}
            /\ At(trace, "edit") = {2}
            /\ trace[2] = EvEdit(user, FALSE)
            /\ At(trace, EditError) = {} =>
                  /\ DeletedAt(user) = {3}
                  /\ RecordsOf(cfg, user) = {}
                  /\ ~is_afk_mute(cfg, user)
                  /\ exc = NoError

\* A member in voice with a record, platform-muted before and after, has
\* turned the camera on and nothing else; the record is gone.
C9_Witness ==
    /\ VoiceEventWithOld(op.user)
    /\ Toggled = {"is_video_enabled"}
    /\ op.old[1].is_guild_muted /\ op.state[1].is_guild_muted
    /\ is_afk_mute(pre.cfg, op.user)
    /\ is_user_in_vc(pre.voice, op.user)
    /\ trace = <<EvCallUnset(op.user, FALSE), EvEdit(op.user, FALSE),
                 EvCfgDelete(op.user)>>
    /\ ~is_afk_mute(cfg, op.user)

\* C10: a voice event whose old state is platform-muted and whose new state is
\* not, for a user who has a record, makes the listener call
\* unset_afk_mute(no_vc_ok=False) once and do nothing else, whichever
\* self-status attributes changed too: no member is edited with mute=True; for
\* a user in voice the record is deleted unless the unmute fails.
C10_ManualUnmuteClears ==
    \A user \in Members :
        (/\ VoiceEventWithOld(user)
         /\ op.old[1].is_guild_muted
         /\ ~op.state[1].is_guild_muted
         /\ RecordsOf(pre.cfg, user) # {}) =>
            /\ Cardinality(At(trace, "unset_afk_mute")) = 1
            /\ trace[1] = EvCallUnset(user, FALSE)
            /\ At(trace, "edit") \subseteq AtEv(trace, EvEdit(user, FALSE))
            /\ Cardinality(At(trace, "edit")) <= 1
            /\ At(trace, UserNotAfkMuteError) = {}
            /\ (is_user_in_vc(pre.voice, user) /\ At(trace, EditError) = {}) =>
                  /\ trace = <<EvCallUnset(user, FALSE), EvEdit(user, FALSE),
                               EvCfgDelete(user)>>
                  /\ RecordsOf(cfg, user) = {}
                  /\ exc = NoError

\* An administrator has unmuted a member in voice with a record, in the same
\* event in which the member undeafened and stopped streaming; the record is gone.
C10_Witness ==
    /\ VoiceEventWithOld(op.user)
    /\ op.old[1].is_guild_muted /\ ~op.state[1].is_guild_muted
    /\ Toggled = {"is_self_deafened", "is_streaming"}
    /\ is_afk_mute(pre.cfg, op.user)
    /\ is_user_in_vc(pre.voice, op.user)
    /\ Cardinality(At(trace, "unset_afk_mute")) = 1
    /\ ~is_afk_mute(cfg, op.user)
    /\ exc = NoError

\* The keys of the records a sweep is to remove: those whose user has a cached
\* voice state that is not platform-muted.
Drifted(c, v) ==
    {k \in DOMAIN c :
        /\ v[c[k].user_id] # None
        /\ ~v[c[k].user_id][1].is_guild_muted}

\* The last handler was on_started and it got to run fetch_afk_mute_state.
Swept == op.name = "on_started" /\ op.event = "saru ready"

\* C11: fetch_afk_mute_state, run with nothing else in between, removes only
\* records whose user has a voice state that is not platform-muted and changes
\* no record; unless fetch_member fails it removes every such record, so that
\* exactly the records of users out of voice or platform-muted remain.
C11_SweepRemovesDrift ==
    Swept =>
        /\ DOMAIN cfg \subseteq DOMAIN pre.cfg
        /\ \A k \in DOMAIN cfg : cfg[k] = pre.cfg[k]
        /\ (DOMAIN pre.cfg) \ (DOMAIN cfg) \subseteq Drifted(pre.cfg, pre.voice)
        /\ exc \in {NoError, FetchError}
        /\ exc = NoError =>
              DOMAIN cfg = (DOMAIN pre.cfg) \ Drifted(pre.cfg, pre.voice)

\* A sweep has found two records, removed the one of a member in voice and
\* not platform-muted, and kept the one of a member in voice and muted.
C11_Witness ==
    /\ Swept
    /\ exc = NoError
    /\ Cardinality(DOMAIN pre.cfg) = 2
    /\ \E k \in DOMAIN pre.cfg :
          /\ DOMAIN cfg = {k}
          /\ pre.voice[pre.cfg[k].user_id] = Some([is_guild_muted |-> TRUE])
    /\ Cardinality(Drifted(pre.cfg, pre.voice)) = 1

\* The last handler was on_voice_state_update for this user.
VoiceEvent(user) == op.name = "on_voice_state_update" /\ op.user = user

\* C15 as claimed: a voice event for a user with no record makes the listener
\* do nothing, whatever the old and new states are: it calls neither
\* unset_afk_mute nor edit, the store is as it was and no exception escapes
\* the listener.
C15_NoRecordNoAction ==
    \A user \in Members :
        (VoiceEvent(user) /\ RecordsOf(pre.cfg, user) = {}) =>
            /\ At(trace, "unset_afk_mute") = {}
            /\ At(trace, "edit") = {}
            /\ cfg = pre.cfg
            /\ exc = NoError

\* C16: a voice event with no old state, a new state in a channel and not
\* platform-muted, for a user who has a record, makes the listener edit the
\* member with mute=True once and do nothing else: it calls neither
\* set_afk_mute nor unset_afk_mute, raises no UserAlreadyAfkMuteError and
\* leaves the store, the record and its muter_id included, as it was.
C16_JoinWhileMuted ==
    \A user \in Members :
        (/\ VoiceEvent(user)
         /\ op.old = None
         /\ op.state[1].channel_id # None
         /\ ~op.state[1].is_guild_muted
         /\ RecordsOf(pre.cfg, user) # {}) =>
            /\ trace \in {<<EvEdit(user, TRUE)>>,
                          <<EvEdit(user, TRUE), EvRaise(user, EditError)>>}
            /\ exc = (IF Len(trace) = 1 THEN NoError ELSE EditError)
            /\ cfg = pre.cfg

\* A member with a record written by the other member has joined a channel
\* unmuted and has been muted again; the record is as it was.
C16_Witness ==
    /\ VoiceEvent(op.user)
    /\ op.old = None
    /\ op.state[1].channel_id = Some(1)
    /\ ~op.state[1].is_guild_muted
    /\ is_afk_mute(pre.cfg, op.user)
    /\ pre.cfg[str(op.user)].muter_id # op.user
    /\ trace = <<EvEdit(op.user, TRUE)>>
    /\ cfg = pre.cfg

\* C17: a voice event with an old state that differs from the new state in
\* channel_id only (the four self-status attributes and is_guild_muted are
\* equal) makes the listener do nothing, for a user with a record or without:
\* no call, no edit, no exception, the store as it was.
C17_ChannelChangeIgnored ==
    \A user \in Members :
        (/\ VoiceEventWithOld(user)
         /\ op.old[1].channel_id # op.state[1].channel_id
         /\ Toggled = {}
         /\ op.old[1].is_guild_muted = op.state[1].is_guild_muted) =>
            /\ trace = <<>>
            /\ cfg = pre.cfg
            /\ exc = NoError

\* A platform-muted member with a record has been moved from channel 1 to
\* channel 2 while streaming; nothing has happened.
C17_Witness ==
    /\ VoiceEventWithOld(op.user)
    /\ op.old[1].channel_id = Some(1) /\ op.state[1].channel_id = Some(2)
    /\ Toggled = {}
    /\ op.old[1].is_streaming
    /\ op.old[1].is_guild_muted /\ op.state[1].is_guild_muted
    /\ is_afk_mute(pre.cfg, op.user)
    /\ trace = <<>>
    /\ cfg = pre.cfg

\* The edits of this member in the trace of the last handler.
EditsOf(user) == {i \in At(trace, "edit") : trace[i].user = user}

\* C18: a voice event, an activity event, /unafkmute or a sweep never edits a
\* member who has no record, neither to unmute nor to mute; and no handler at
\* all edits with mute=False a member for whom it found no record.
C18_ForeignMutesKept ==
    \A user \in Members :
        RecordsOf(pre.cfg, user) = {} =>
            /\ op.name \in {"on_voice_state_update", "on_member_message_action",
                            "unafkmute", "on_started"} => EditsOf(user) = {}
            /\ AtEv(trace, EvEdit(user, FALSE)) = {}

\* A member with no record, in voice and platform-muted by someone else, has
\* turned the camera on: unset_afk_mute was called for the member and no edit
\* was made.
C18_Witness ==
    /\ VoiceEventWithOld(op.user)
    /\ ~is_afk_mute(pre.cfg, op.user)
    /\ op.old[1].is_guild_muted /\ op.state[1].is_guild_muted
    /\ op.state[1].channel_id # None
    /\ Toggled = {"is_video_enabled"}
    /\ CalledUnset(op.user, FALSE)
    /\ At(trace, "edit") = {}

\* The commands and listeners of the bot.
HandlerNames ==
    {"afkmute", "unafkmute", "on_voice_state_update",
     "on_member_message_action", "on_started"}

\* C19: no command, voice event, activity event or sweep deletes the record
\* of a user who is in voice and platform-muted without having edited the
\* member with mute=False first; and none of them calls
\* unset_afk_mute(no_vc_ok=True), which skips that edit, but for a user seen
\* in voice and not platform-muted.
C19_NoStrandedMute ==
    op.name \in HandlerNames =>
        \A user \in Members :
            /\ pre.voice[user] = Some([is_guild_muted |-> TRUE]) =>
                  \A j \in DeletedAt(user) :
                      \E i \in AtEv(trace, EvEdit(user, FALSE)) : i < j
            /\ CalledUnset(user, TRUE) =>
                  pre.voice[user] = Some([is_guild_muted |-> FALSE])

\* A sweep has deleted, with no edit, the record of a member in voice and not
\* platform-muted, and has kept the record of a member in voice and muted.
C19_Witness ==
    /\ Swept
    /\ \E u1 \in Members, u2 \in Members :
          /\ pre.voice[u1] = Some([is_guild_muted |-> FALSE])
          /\ pre.voice[u2] = Some([is_guild_muted |-> TRUE])
          /\ is_afk_mute(pre.cfg, u1) /\ is_afk_mute(pre.cfg, u2)
          /\ CalledUnset(u1, TRUE) /\ DeletedAt(u1) # {}
          /\ is_afk_mute(cfg, u2)
    /\ At(trace, "edit") = {}

\* ================================================================ coroutines
\* The handlers are coroutines of one event loop: a handler runs until it
\* awaits the platform (user.edit, app.rest.fetch_member), and other handlers
\* run while it waits. This part follows them from await to await; the cache
\* stays as it is meanwhile.

\* How many coroutines begin in one run.
MaxTasks == 2

\* What self.cfg.delete raises for a key that is not there, if it raises.
KeyError == "KeyError"

\* The stores the program can have persisted: for some members, the record
\* set_afk_mute writes for them, under the key str(user.id).
Stores ==
    UNION {{[k \in {str(u) : u \in S} |->
                AfkMuteInfo(CHOOSE u \in S : str(u) = k,
                            m[CHOOSE u \in S : str(u) = k])] :
            m \in [S -> Members]} : S \in SUBSET Members}

\* A coroutine that ran up to an await: the store as it left it, what it did,
\* the await it is suspended at, and for the sweep the record it is at.
Suspended(c, tr, at, i) ==
    [cfg |-> c, trace |-> tr, exc |-> NoError, at |-> at, i |-> i]

\* A coroutine that has returned or raised, with outcome r.
Returned(r) ==
    [cfg |-> r.cfg, trace |-> r.trace, exc |-> r.exc, at |-> "returned", i |-> 0]

\* /afkmute user:<target> by member, up to the await of user.edit(mute=True)
\* in set_afk_mute, or to its end when it does not get there.
afkmute_begin(c, v, target, member) ==
    IF ~is_afk_mute(c, target) /\ is_user_in_vc(v, target)
    THEN Suspended(c, <<EvCallSet(target, member), EvEdit(target, TRUE)>>,
                   "user.edit", 0)
    ELSE Returned(afkmute(c, v, target, member, TRUE))

\* /afkmute from the return of user.edit(mute=True) on: set_afk_mute writes
\* the record into the store as it is by then, and the command responds.
afkmute_resume(c, tr, target, member, editOk) ==
    IF ~editOk
    THEN Returned(Outcome(c, Append(tr, EvRaise(target, EditError)), EditError))
    ELSE Returned(Outcome(cfg_set(c, str(target), AfkMuteInfo(target, member)),
             tr \o <<EvCfgSet(target, member),
                     EvRespond(target, "you have been afk-muted.")>>,
             NoError))

\* /unafkmute by member, up to the await of user.edit(mute=False) in
\* unset_afk_mute, or to its end when it does not get there.
unafkmute_begin(c, v, member) ==
    IF is_afk_mute(c, member) /\ is_user_in_vc(v, member)
    THEN Suspended(c, <<EvCallUnset(member, FALSE), EvEdit(member, FALSE)>>,
                   "user.edit", 0)
    ELSE Returned(unafkmute(c, v, member, TRUE))

\* /unafkmute from the return of user.edit(mute=False) on: unset_afk_mute
\* deletes the key from the store as it is by then. keyError: whether
\* cfg.delete raises when the key is no longer there.
unafkmute_resume(c, tr, member, editOk, keyError) ==
    IF ~editOk
    THEN Returned(Outcome(c, Append(tr, EvRaise(member, EditError)), EditError))
    ELSE IF ~is_afk_mute(c, member) /\ keyError
    THEN Returned(Outcome(c,
             tr \o <<EvCfgDelete(member), EvRaise(member, KeyError)>>, KeyError))
    ELSE Returned(Outcome(cfg_delete(c, str(member)),
             tr \o <<EvCfgDelete(member),
                     EvRespond(member, "You have been unmuted.")>>,
             NoError))

\* on_started once saru is ready: fetch_afk_mute_state has enumerated
\* info_items and awaits fetch_member for the first of them, if there is one.
sweep_begin(c, info_items) ==
    IF info_items = <<>>
    THEN Returned(Outcome(c, <<>>, NoError))
    ELSE Suspended(c, <<>>, "fetch_member", 1)

\* sweep_resume ending the sweep after the first record it removes.
sweep_resume_firstonly(c, v, tr, info_items, i, fetchOk) ==
    LET r == sweep_item(c, v, tr, info_items[i], fetchOk) IN
    IF r.exc # NoError \/ i = Len(info_items) \/ r.cfg # c
    THEN Returned(r)
    ELSE Suspended(r.cfg, r.trace, "fetch_member", i + 1)

\* The sweep from the return of fetch_member for info_items[i] on: the rest of
\* this turn of the loop, then the await of the next fetch_member.
sweep_resume(c, v, tr, info_items, i, fetchOk) ==
    LET r == sweep_item(c, v, tr, info_items[i], fetchOk) IN
    IF r.exc # NoError \/ i = Len(info_items)
    THEN Returned(r)
    ELSE Suspended(r.cfg, r.trace, "fetch_member", i + 1)

\* The coroutine of handler name as step s leaves it. alone: no other
\* coroutine was under way while this one was; left: the store as it last
\* left it.
Task(name, user, muter, info_items, alone, s) ==
    [name |-> name, user |-> user, muter |-> muter, info_items |-> info_items,
     at |-> s.at, i |-> s.i, trace |-> s.trace, exc |-> s.exc,
     alone |-> alone, left |-> s.cfg]

Running(ts) == {k \in DOMAIN ts : ts[k].at # "returned"}

\* A coroutine begins and runs to step s.
Begin(name, user, muter, info_items, s) ==
    /\ tasks' = Append([k \in DOMAIN tasks |->
                           [tasks[k] EXCEPT !.alone = @ /\ k \notin Running(tasks)]],
                       Task(name, user, muter, info_items, Running(tasks) = {}, s))
    /\ cfg' = s.cfg
    /\ UNCHANGED <<voice, op, pre, trace, exc, deleted, platform, queue>>

\* The coroutine tasks[k] is resumed and runs to step s.
Resume(k, s) ==
    /\ tasks' = [tasks EXCEPT ![k] =
                    Task(@.name, @.user, @.muter, @.info_items, @.alone, s)]
    /\ cfg' = s.cfg
    /\ UNCHANGED <<voice, op, pre, trace, exc, deleted, platform, queue>>

\* Any store may have been persisted by earlier runs; nothing is under way.
InitConc ==
    /\ cfg \in Stores
    /\ voice \in [Members -> CachedVoiceStates]
    /\ op = Idle
    /\ pre = [cfg |-> cfg, voice |-> voice]
    /\ trace = <<>>
    /\ exc = NoError
    /\ deleted = {}
    /\ tasks = <<>>
    /\ platform = <<>>
    /\ queue = <<>>

AfkmuteBegins ==
    /\ Len(tasks) < MaxTasks
    /\ \E target, member \in Members :
          Begin("afkmute", target, member, <<>>,
                afkmute_begin(cfg, voice, target, member))

AfkmuteResumes ==
    \E k \in DOMAIN tasks, editOk \in BOOLEAN :
        /\ tasks[k].name = "afkmute"
        /\ tasks[k].at = "user.edit"
        /\ Resume(k, afkmute_resume(cfg, tasks[k].trace, tasks[k].user,
                                    tasks[k].muter, editOk))

UnafkmuteBegins ==
    /\ Len(tasks) < MaxTasks
    /\ \E member \in Members :
          Begin("unafkmute", member, 0, <<>>, unafkmute_begin(cfg, voice, member))

UnafkmuteResumes ==
    \E k \in DOMAIN tasks, editOk \in BOOLEAN :
        /\ tasks[k].name = "unafkmute"
        /\ tasks[k].at = "user.edit"
        /\ \E s \in {unafkmute_resume(cfg, tasks[k].trace, tasks[k].user,
                                      editOk, keyError) : keyError \in BOOLEAN} :
              Resume(k, s)

SweepBegins ==
    /\ Len(tasks) < MaxTasks
    /\ \E info_items \in Enumerations(cfg) :
          Begin("on_started", 0, 0, info_items, sweep_begin(cfg, info_items))

SweepResumes ==
    \E k \in DOMAIN tasks, fetchOk \in BOOLEAN :
        /\ tasks[k].name = "on_started"
        /\ tasks[k].at = "fetch_member"
        /\ Resume(k, sweep_resume(cfg, voice, tasks[k].trace,
                                  tasks[k].info_items, tasks[k].i, fetchOk))

NextConc ==
    \/ AfkmuteBegins
    \/ AfkmuteResumes
    \/ UnafkmuteBegins
    \/ UnafkmuteResumes
    \/ SweepBegins
    \/ SweepResumes

SpecConc == InitConc /\ [][NextConc]_vars

\* ------------------------------------------------- properties of coroutines

\* The coroutine tasks[k] has returned or raised.
Done(k) == tasks[k].at = "returned"

\* tasks[k] and tasks[k + 1] are two sweeps run in succession with nothing
\* else under way or in between, and the first ran to its end.
TwoSweeps(k) ==
    /\ k + 1 \in DOMAIN tasks
    /\ tasks[k].name = "on_started" /\ tasks[k + 1].name = "on_started"
    /\ Done(k) /\ Done(k + 1)
    /\ tasks[k].alone /\ tasks[k + 1].alone
    /\ tasks[k].exc = NoError

\* C12: when fetch_afk_mute_state has run to its end and runs again with
\* nothing in between, the second run leaves the store as the first left it,
\* raises none of the afk-mute errors (only a failing fetch_member can end
\* it), and neither edits a member nor writes or deletes a record; what it
\* calls is fetch_member, once for each record it looks at.
C12_SweepIdempotent ==
    \A k \in DOMAIN tasks :
        TwoSweeps(k) =>
            /\ tasks[k + 1].left = tasks[k].left
            /\ tasks[k + 1].exc \in {NoError, FetchError}
            /\ \A i \in DOMAIN tasks[k + 1].trace :
                  tasks[k + 1].trace[i].e \in {"fetch_member", FetchError}

\* A first sweep found two records and removed one of them; the second sweep
\* fetched the member of the record that was left and ran to its end.
C12_Witness ==
    \E k \in DOMAIN tasks :
        /\ TwoSweeps(k)
        /\ Len(tasks[k].info_items) = 2
        /\ Cardinality(At(tasks[k].trace, "cfg.delete")) = 1
        /\ Len(tasks[k + 1].info_items) = 1
        /\ At(tasks[k + 1].trace, "fetch_member") = {1}
        /\ tasks[k + 1].exc = NoError

\* C13 as claimed: no UserNotAfkMuteError surfaces from a sweep, whatever ran
\* while it was suspended at fetch_member, and a sweep that no error ended
\* has fetched the member of every record it enumerated.
C13_SweepRaceSwallowed ==
    \A k \in DOMAIN tasks :
        (tasks[k].name = "on_started" /\ Done(k)) =>
            /\ tasks[k].exc # UserNotAfkMuteError
            /\ tasks[k].exc = NoError =>
                  Cardinality(At(tasks[k].trace, "fetch_member"))
                      = Len(tasks[k].info_items)

\* tasks[k] is an /afkmute that wrote the record of its target.
Applied(k) ==
    /\ tasks[k].name = "afkmute"
    /\ Done(k)
    /\ At(tasks[k].trace, "cfg.set") # {}

\* C14 as claimed: of the /afkmute commands for one user, with no clear
\* under way or in between, at most one writes the record: whichever comes
\* second in any interleaving finds the record and fails with
\* UserAlreadyAfkMuteError, so that no record is written over.
C14_AppliesSerialized ==
    (\A k \in DOMAIN tasks : tasks[k].name = "afkmute") =>
        \A j, k \in DOMAIN tasks :
            (j # k /\ tasks[j].user = tasks[k].user) => ~(Applied(j) /\ Applied(k))

\* ================================================================= the world
\* The handlers run one at a time, in the order the gateway delivers their
\* events, while the members and the administrators act on the platform. The
\* platform answers each change of a voice state, the bot's edits included,
\* with a voice state update, and refuses to edit a member who is in no voice
\* channel; every other call succeeds. The cache follows the delivered
\* events.

\* How many voice state updates wait for delivery when the world acts again.
MaxQueue == 2

\* The self-status attributes the members change in this part.
WorldStatus == {"is_self_muted"}

\* The voice state of a member nobody has touched: in no channel, nothing set.
Offline ==
    [channel_id |-> None, is_guild_muted |-> FALSE, is_self_deafened |-> FALSE,
     is_self_muted |-> FALSE, is_streaming |-> FALSE, is_video_enabled |-> FALSE]

\* The member is in a voice channel, going by the platform.
Connected(p, user) == p[user].channel_id # None

\* The VoiceStateUpdateEvent for a member going from voice state prev to
\* state: old_state is None for a member who was in no channel.
VoiceStateUpdate(user, prev, state) ==
    [user |-> user,
     old |-> IF prev.channel_id = None THEN None ELSE Some(prev),
     state |-> state]

\* The platform and the gateway's queue, w, after the voice state of user has
\* become state.
Changed(w, user, state) ==
    IF state = w.platform[user]
    THEN w
    ELSE [platform |-> [w.platform EXCEPT ![user] = state],
          queue |-> Append(w.queue,
                           VoiceStateUpdate(user, w.platform[user], state))]

\* w after the edits a handler made, going by its trace from index i on; an
\* edit that raised changed nothing.
RECURSIVE Edited(_, _, _)
Edited(w, tr, i) ==
    IF i > Len(tr)
    THEN w
    ELSE IF tr[i].e = "edit" /\ ~(i < Len(tr) /\ tr[i + 1].e = EditError)
    THEN Edited(Changed(w, tr[i].user,
                        [w.platform[tr[i].user] EXCEPT !.is_guild_muted = tr[i].flag]),
                tr, i + 1)
    ELSE Edited(w, tr, i + 1)

\* One handler runs from store c, cache v and world w, with outcome r.
RanInWorld(o, c, v, w, r) ==
    /\ op' = o
    /\ pre' = [cfg |-> c, voice |-> v]
    /\ cfg' = r.cfg
    /\ voice' = v
    /\ trace' = r.trace
    /\ exc' = r.exc
    /\ platform' = Edited(w, r.trace, 1).platform
    /\ queue' = Edited(w, r.trace, 1).queue
    /\ UNCHANGED <<deleted, tasks>>

\* Somebody other than the bot changes the voice state of user to state.
ActsOnPlatform(user, state) ==
    /\ state # platform[user]
    /\ platform' = Changed([platform |-> platform, queue |-> queue], user, state).platform
    /\ queue' = Changed([platform |-> platform, queue |-> queue], user, state).queue
    /\ UNCHANGED <<cfg, voice, op, pre, trace, exc, deleted, tasks>>

\* The process has started with an empty g/afk_mute_users; the members sit in
\* voice channels or not, server-muted or not, and the cache agrees with the
\* platform.
InitWorld ==
    /\ cfg = EmptyCfg
    /\ platform \in [Members ->
                        {[Offline EXCEPT !.channel_id = ch, !.is_guild_muted = m] :
                            ch \in {None} \cup {Some(c) : c \in Channels},
                            m \in BOOLEAN}]
    /\ voice = [u \in Members |-> Cached(platform[u])]
    /\ op = Idle
    /\ pre = [cfg |-> cfg, voice |-> voice]
    /\ trace = <<>>
    /\ exc = NoError
    /\ deleted = {}
    /\ tasks = <<>>
    /\ queue = <<>>

MemberJoins ==
    /\ op = Idle
    /\ Len(queue) < MaxQueue
    /\ \E user \in Members, c \in Channels :
          /\ ~Connected(platform, user)
          /\ ActsOnPlatform(user, [platform[user] EXCEPT !.channel_id = Some(c)])

MemberLeaves ==
    /\ op = Idle
    /\ Len(queue) < MaxQueue
    /\ \E user \in Members :
          /\ Connected(platform, user)
          /\ ActsOnPlatform(user, [platform[user] EXCEPT !.channel_id = None])

\* The member changes channel, or an administrator moves them.
MemberMoves ==
    /\ op = Idle
    /\ Len(queue) < MaxQueue
    /\ \E user \in Members, c \in Channels :
          /\ Connected(platform, user)
          /\ ActsOnPlatform(user, [platform[user] EXCEPT !.channel_id = Some(c)])

\* The member changes a self-status attribute in their client.
MemberChangesStatus ==
    /\ op = Idle
    /\ Len(queue) < MaxQueue
    /\ \E user \in Members, a \in WorldStatus :
          /\ Connected(platform, user)
          /\ ActsOnPlatform(user, [platform[user] EXCEPT ![a] = ~@])

\* An administrator server-mutes or unmutes a member who is in voice.
AdminEditsMute ==
    /\ op = Idle
    /\ Len(queue) < MaxQueue
    /\ \E user \in Members :
          /\ Connected(platform, user)
          /\ ActsOnPlatform(user, [platform[user] EXCEPT !.is_guild_muted = ~@])

\* The gateway delivers the oldest voice state update: the cache takes the new
\* state, then the listener runs.
VoiceStateUpdateDelivered ==
    /\ op = Idle
    /\ queue # <<>>
    /\ LET event == Head(queue)
           v == [voice EXCEPT ![event.user] = Cached(event.state)]
       IN RanInWorld(Op("on_voice_state_update", event.user, 0, FALSE,
                        event.old, Some(event.state), ""),
                     cfg, v, [platform |-> platform, queue |-> Tail(queue)],
                     on_voice_state_update(cfg, v, event.user, event.old,
                                           event.state,
                                           Connected(platform, event.user)))

\* A member runs /afkmute on a target.
AfkmuteInWorld ==
    /\ op = Idle
    /\ Len(queue) < MaxQueue
    /\ \E target \in Members, member \in Members :
          RanInWorld(Op("afkmute", target, member, FALSE, None, None, ""),
                     cfg, voice, [platform |-> platform, queue |-> queue],
                     afkmute(cfg, voice, target, member,
                             Connected(platform, target)))

\* A member runs /unafkmute.
UnafkmuteInWorld ==
    /\ op = Idle
    /\ Len(queue) < MaxQueue
    /\ \E member \in Members :
          RanInWorld(Op("unafkmute", member, 0, FALSE, None, None, ""),
                     cfg, voice, [platform |-> platform, queue |-> queue],
                     unafkmute(cfg, voice, member, Connected(platform, member)))

\* A member sends a message.
MessageInWorld ==
    /\ op = Idle
    /\ Len(queue) < MaxQueue
    /\ \E user \in Members :
          RanInWorld(Op("on_member_message_action", user, 0, FALSE, None,
                        Some(user), "GuildMessageCreateEvent"),
                     cfg, voice, [platform |-> platform, queue |-> queue],
                     on_member_message_action(cfg, voice, Some(user),
                                              Connected(platform, user)))

NextWorld ==
    \/ MemberJoins
    \/ MemberLeaves
    \/ MemberMoves
    \/ MemberChangesStatus
    \/ AdminEditsMute
    \/ VoiceStateUpdateDelivered
    \/ AfkmuteInWorld
    \/ UnafkmuteInWorld
    \/ MessageInWorld
    \/ AwaitNext

SpecWorld == InitWorld /\ [][NextWorld]_vars

\* C20: with the handlers run one at a time in the order of delivery, and no
\* edit failing but that of a member who is in no voice channel, whenever no
\* voice state update waits for delivery every member who has a record and is
\* in a voice channel is server-muted on the platform.
C20_RecordAndWorldConsistent ==
    queue = <<>> =>
        \A user \in Members :
            (is_afk_mute(cfg, user) /\ Connected(platform, user)) =>
                platform[user].is_guild_muted

\* Nothing waits for delivery, and the update delivered last told of a member
\* with a record being unmuted by an administrator: the listener has removed
\* the record and the member sits in voice unmuted, while the other member
\* has a record and sits in voice server-muted.
C20_Witness ==
    /\ queue = <<>>
    /\ op.name = "on_voice_state_update"
    /\ op.old # None
    /\ op.old[1].is_guild_muted
    /\ ~op.state[1].is_guild_muted
    /\ is_afk_mute(pre.cfg, op.user)
    /\ ~is_afk_mute(cfg, op.user)
    /\ Connected(platform, op.user)
    /\ ~platform[op.user].is_guild_muted
    /\ \E other \in Members \ {op.user} :
          /\ is_afk_mute(cfg, other)
          /\ Connected(platform, other)
          /\ platform[other].is_guild_muted

====
